---- MODULE Spec2Model ----
(***************************************************************************)
(* Model of the calendar synchronisation engine of theHilikus/daily:      *)
(* googleCalendarSource.getDayEvents / retrieveEventsAround /             *)
(* createEventsFromResponse.  Time is counted in whole hours; instant 0   *)
(* is a UTC midnight.  A getDayEvents call runs until it returns or until *)
(* it has sent a list request to the provider; the provider's answer is   *)
(* the input of the step that runs the rest of the call.                  *)
(***************************************************************************)
EXTENDS Integers, Sequences, FiniteSets, TLC

VARIABLES
    eventsBuffer,       \* gcal.eventsBuffer: sequence of events
    requestStartDate,   \* gcal.requestStartDate (instant, hours)
    requestEndDate,     \* gcal.requestEndDate (instant, hours)
    syncToken,          \* Preferences().String("calendar-sync-token")
    tzOffset,           \* offset east of UTC of the local zone, hours
    syncedWindow,       \* the window of the full sync eventsBuffer comes from
    pc,                 \* "idle", or "waiting" for the provider's answer
    call,               \* the getDayEvents call in progress, or the last one
    app                 \* the application around the source: display, timers, threads

vars ==
    <<eventsBuffer, requestStartDate, requestEndDate, syncToken, tzOffset, syncedWindow, pc, call,
      app>>

----------------------------------------------------------------------------
(* Bounds of the model *)

MaxGone == 2        \* at most this many 410 Gone answers inside one call
MaxItems == 1       \* at most this many items in one provider response
MaxDayIdx == 4      \* requested days are BaseDay + 3 * (0..MaxDayIdx)
BaseDay == 20

(* Program constants *)

HoursPerDay == 24
minBufferThreshold == 2
requestHalfWindow == 5
MaxDurationHours == 2562047        \* time.Duration saturates at 2^63-1 ns
ZeroTime == -17700000              \* the zero time.Time, long before instant 0

TzOffsets == {-5, 2}
Ids == {1, 2}
TitleOf == <<"A", "B">>
Tokens == {"s1", "s2"}
EventStarts == {(BaseDay + 6) * HoursPerDay + 15}

\* the requested days: every third day, late in the evening (UTC) on the
\* days of even index and in the morning on the others
TimeOfDay(i) == IF i % 2 = 0 THEN 22 ELSE 9
Days == {(BaseDay + 3 * i) * HoursPerDay + TimeOfDay(i) : i \in 0..MaxDayIdx}

----------------------------------------------------------------------------
(* time.Time arithmetic *)

\* Go's int(f) of a float: truncation toward zero
TruncDiv(a, b) == IF a >= 0 THEN a \div b ELSE -((-a) \div b)

\* t.Sub(u): the difference, saturated to the range of time.Duration
Sub(t, u) ==
    LET d == t - u
    IN IF d > MaxDurationHours THEN MaxDurationHours
       ELSE IF d < -MaxDurationHours THEN -MaxDurationHours
       ELSE d

\* int(t.Sub(u).Hours()/24)
WholeDays(t, u) == TruncDiv(Sub(t, u), HoursPerDay)

\* t.AddDate(0, 0, n) in a zone of fixed offset
AddDate(t, n) == t + n * HoursPerDay

\* t.Truncate(24 * time.Hour): rounds down to a multiple of 24h since the zero time
Truncate(t) == t - (t % HoursPerDay)

\* day.AddDate(0, 0, -5).Truncate(24h).Add(-timezoneOffset)
WindowStart(day, off) == Truncate(AddDate(day, -requestHalfWindow)) - off

\* variant: the buffer threshold taken for the half window
WindowEnd_Short(day, off) == Truncate(AddDate(day, minBufferThreshold)) - off

\* day.AddDate(0, 0, 5).Truncate(24h).Add(-timezoneOffset)
WindowEnd(day, off) == Truncate(AddDate(day, requestHalfWindow)) - off

\* one.Date() of an instant in the local zone, as a day number
LocalDate(t, off) == (t + off) \div HoursPerDay

\* variant: the dates are compared in UTC
isOnSameDay_Utc(one, other, off) == LocalDate(one, 0) = LocalDate(other, 0)

isOnSameDay(one, other, off) == LocalDate(one, off) = LocalDate(other, off)

----------------------------------------------------------------------------
(* The provider's answers *)

\* item.Start.DateTime / item.End.DateTime: absent (all-day), malformed, or an RFC3339 instant
NoDateTime == [present |-> FALSE, wellFormed |-> FALSE, instant |-> 0]
BadDateTime == [present |-> TRUE, wellFormed |-> FALSE, instant |-> 0]
DateTime(t) == [present |-> TRUE, wellFormed |-> TRUE, instant |-> t]

\* time.Parse(time.RFC3339, s)
ParseRFC3339(dt) ==
    IF dt.present /\ dt.wellFormed
    THEN [err |-> FALSE, t |-> dt.instant]
    ELSE [err |-> TRUE, t |-> ZeroTime]

Item(id, status, start, end, summary) ==
    [id |-> id, status |-> status, start |-> start, end |-> end, summary |-> summary]

ItemSet ==
    {Item(id, "cancelled", NoDateTime, NoDateTime, "") : id \in Ids}
    \cup {Item(id, "confirmed", DateTime(s), DateTime(s + 1), TitleOf[id]) : id \in Ids, s \in EventStarts}
    \cup {Item(1, "confirmed", NoDateTime, NoDateTime, TitleOf[1])}
    \cup {Item(1, "confirmed", BadDateTime, BadDateTime, TitleOf[1])}
    \cup {Item(2, "confirmed", DateTime(s), BadDateTime, TitleOf[2]) : s \in EventStarts}

RECURSIVE SeqsUpTo(_, _)
SeqsUpTo(S, n) ==
    IF n = 0 THEN {<<>>}
    ELSE LET shorter == SeqsUpTo(S, n - 1)
         IN shorter \cup {Append(q, x) : q \in {r \in shorter : Len(r) = n - 1}, x \in S}

GoneAnswer == [kind |-> "gone", nextSyncToken |-> "", items |-> <<>>]
ErrorAnswer == [kind |-> "error", nextSyncToken |-> "", items |-> <<>>]
OkAnswers ==
    {[kind |-> "ok", nextSyncToken |-> tok, items |-> its] :
        tok \in Tokens \cup {""}, its \in SeqsUpTo(ItemSet, MaxItems)}

\* the response holds a timed, not cancelled item whose start or end does not parse
HasMalformed(items) ==
    \E i \in 1..Len(items) :
        /\ items[i].status # "cancelled"
        /\ items[i].start.present
        /\ ~(items[i].start.wellFormed /\ items[i].end.present /\ items[i].end.wellFormed)

\* what the provider can answer to one list request
Answers == OkAnswers \cup {ErrorAnswer, GoneAnswer}

----------------------------------------------------------------------------
(* The event cache *)

\* the event struct; the fields the synchronisation engine orders and filters by
\* notifiable: the items of the model are accepted, opaque and start in the future
NewEvent(id, title, start, end) ==
    [id |-> id, title |-> title, start |-> start, end |-> end,
     notifiable |-> TRUE, notified |-> FALSE]

\* map[string]event as a function from the ids it holds
EmptyMap == [x \in {} |-> 0]
MapPut(m, k, v) == [x \in (DOMAIN m) \cup {k} |-> IF x = k THEN v ELSE m[x]]
MapDelete(m, k) == [x \in (DOMAIN m) \ {k} |-> m[x]]

\* for _, e := range gcal.eventsBuffer { result[e.id] = e }
RECURSIVE MapOfBuffer(_)
MapOfBuffer(buf) ==
    IF buf = <<>> THEN EmptyMap
    ELSE MapPut(MapOfBuffer(SubSeq(buf, 1, Len(buf) - 1)), buf[Len(buf)].id, buf[Len(buf)])

\* variant: a cancelled item is skipped without being removed from the map
RECURSIVE ApplyItems_KeepCancelled(_, _)
ApplyItems_KeepCancelled(result, items) ==
    IF items = <<>> THEN [err |-> FALSE, events |-> result]
    ELSE LET item == Head(items)
             rest == Tail(items)
         IN IF item.status = "cancelled"
            THEN ApplyItems_KeepCancelled(result, rest)
            ELSE IF item.start.present
            THEN LET eventStart == ParseRFC3339(item.start)
                     eventEnd == ParseRFC3339(item.end)
                 IN IF eventStart.err THEN [err |-> TRUE, events |-> EmptyMap]
                    ELSE IF eventEnd.err THEN [err |-> TRUE, events |-> EmptyMap]
                    ELSE ApplyItems_KeepCancelled(
                             MapPut(result, item.id,
                                    NewEvent(item.id, item.summary, eventStart.t, eventEnd.t)),
                             rest)
            ELSE ApplyItems_KeepCancelled(result, rest)

\* the loop over response.Items: [err, events]
RECURSIVE ApplyItems(_, _)
ApplyItems(result, items) ==
    IF items = <<>> THEN [err |-> FALSE, events |-> result]
    ELSE LET item == Head(items)
             rest == Tail(items)
         IN IF item.status = "cancelled"
            THEN ApplyItems(MapDelete(result, item.id), rest)
            ELSE IF item.start.present
            THEN LET eventStart == ParseRFC3339(item.start)
                     eventEnd == ParseRFC3339(item.end)
                 IN IF eventStart.err THEN [err |-> TRUE, events |-> EmptyMap]
                    ELSE IF eventEnd.err THEN [err |-> TRUE, events |-> EmptyMap]
                    ELSE ApplyItems(MapPut(result, item.id,
                                           NewEvent(item.id, item.summary, eventStart.t, eventEnd.t)),
                                    rest)
            ELSE ApplyItems(result, rest)

\* variant: the map is not prepopulated from the buffer on an incremental sync
createEventsFromResponse_NoPrepopulate(isIncremental, buffer, items) ==
    ApplyItems(EmptyMap, items)

createEventsFromResponse(isIncremental, buffer, items) ==
    ApplyItems(IF isIncremental THEN MapOfBuffer(buffer) ELSE EmptyMap, items)

\* strings.Compare on the titles of the model
TitleOrder == <<"", "A", "B">>
TitleRank(t) == CHOOSE i \in 1..Len(TitleOrder) : TitleOrder[i] = t
StringsCompare(a, b) ==
    IF TitleRank(a) < TitleRank(b) THEN -1 ELSE IF TitleRank(a) > TitleRank(b) THEN 1 ELSE 0

\* variant: events are compared by start only
CompareEvents_StartOnly(a, b) ==
    IF a.start < b.start THEN -1
    ELSE IF a.start > b.start THEN 1
    ELSE 0

\* the comparison function handed to slices.SortFunc
CompareEvents(a, b) ==
    IF a.start < b.start THEN -1
    ELSE IF a.start > b.start THEN 1
    ELSE StringsCompare(a.title, b.title)

IsSorted(buf) == \A i \in 1..(Len(buf) - 1) : CompareEvents(buf[i], buf[i + 1]) <= 0

\* every order in which the values of a map can be appended (map iteration order is unspecified)
RECURSIVE Orders(_)
Orders(m) ==
    IF DOMAIN m = {} THEN {<<>>}
    ELSE UNION {{<<m[k]>> \o q : q \in Orders(MapDelete(m, k))} : k \in DOMAIN m}

\* the buffer after the append loop and slices.SortFunc (an unstable sort:
\* events that compare equal end in any order)
SortedBuffers(m) == {q \in Orders(m) : IsSorted(q)}

----------------------------------------------------------------------------
(* googleCalendarSource.retrieveEventsAround *)

\* no full sync has filled the buffer
NoWindow == <<ZeroTime, ZeroTime>>

\* a configuration: the source, the preferences and the call in progress
Cur ==
    [eventsBuffer |-> eventsBuffer, requestStartDate |-> requestStartDate,
     requestEndDate |-> requestEndDate, syncToken |-> syncToken,
     syncedWindow |-> syncedWindow, pc |-> pc, call |-> call]

\* the list request as it is sent, with the state it was computed from
Request(isIncremental, tok, start, end, c) ==
    [isIncremental |-> isIncremental,
     syncToken |-> IF isIncremental THEN tok ELSE "",
     timeBounded |-> ~isIncremental,
     timeMin |-> IF isIncremental THEN 0 ELSE start,
     timeMax |-> IF isIncremental THEN 0 ELSE end,
     answer |-> "pending", nextSyncToken |-> "", malformed |-> FALSE, items |-> <<>>,
     before |-> [eventsBuffer |-> c.eventsBuffer, requestStartDate |-> c.requestStartDate,
                 requestEndDate |-> c.requestEndDate, syncToken |-> c.syncToken]]

\* variant: incremental whenever a token is stored and the window is the same
retrieveEventsAround_NoBufferTest(c, day, site, timezoneOffset) ==
    LET tok == c.syncToken
        newRequestStartDate == WindowStart(day, timezoneOffset)
        isIncremental == tok # "" /\ c.requestStartDate = newRequestStartDate
        newRequestEndDate == WindowEnd(day, timezoneOffset)
    IN [c EXCEPT !.requestStartDate = newRequestStartDate,
                 !.requestEndDate = newRequestEndDate,
                 !.pc = "waiting",
                 !.call.site = site,
                 !.call.requests = Append(@, Request(isIncremental, tok, newRequestStartDate,
                                                     newRequestEndDate, c))]

\* variant: incremental whenever a token is stored and the buffer is not empty
retrieveEventsAround_NoWindowTest(c, day, site, timezoneOffset) ==
    LET tok == c.syncToken
        newRequestStartDate == WindowStart(day, timezoneOffset)
        isIncremental == tok # "" /\ Len(c.eventsBuffer) > 0
        newRequestEndDate == WindowEnd(day, timezoneOffset)
    IN [c EXCEPT !.requestStartDate = newRequestStartDate,
                 !.requestEndDate = newRequestEndDate,
                 !.pc = "waiting",
                 !.call.site = site,
                 !.call.requests = Append(@, Request(isIncremental, tok, newRequestStartDate,
                                                     newRequestEndDate, c))]

\* retrieveEventsAround(day) up to listCall...Do(): the sync mode is chosen, the
\* window is moved and the request is sent; site is the place in getDayEvents that called
retrieveEventsAround(c, day, site, timezoneOffset) ==
    LET tok == c.syncToken
        newRequestStartDate == WindowStart(day, timezoneOffset)
        isIncremental == tok # "" /\ Len(c.eventsBuffer) > 0
                         /\ c.requestStartDate = newRequestStartDate
        newRequestEndDate == WindowEnd(day, timezoneOffset)
    IN [c EXCEPT !.requestStartDate = newRequestStartDate,
                 !.requestEndDate = newRequestEndDate,
                 !.pc = "waiting",
                 !.call.site = site,
                 !.call.requests = Append(@, Request(isIncremental, tok, newRequestStartDate,
                                                     newRequestEndDate, c))]

----------------------------------------------------------------------------
(* googleCalendarSource.getDayEvents *)

\* the filter loop over gcal.eventsBuffer
DayFilter(buf, day, timezoneOffset) ==
    SelectSeq(buf, LAMBDA e : isOnSameDay(day, e.start, timezoneOffset))

\* return result, nil
ReturnResult(c, timezoneOffset) ==
    [c EXCEPT !.pc = "idle", !.call.err = "",
              !.call.result = DayFilter(c.eventsBuffer, c.call.day, timezoneOffset)]

\* variant: the buffer is dropped when an error is returned
ReturnError_Blank(c, err) ==
    [c EXCEPT !.pc = "idle", !.call.err = err, !.call.result = <<>>, !.eventsBuffer = <<>>]

\* return nil, err
ReturnError(c, err) == [c EXCEPT !.pc = "idle", !.call.err = err, !.call.result = <<>>]

\* variant: the forceRetrieve flag is not looked at
ForceCheck_IgnoreFlag(c, timezoneOffset) ==
    IF ~c.call.refreshed
    THEN retrieveEventsAround(c, c.call.day, "force", timezoneOffset)
    ELSE ReturnResult(c, timezoneOffset)

\* if forceRetrieve && !refreshed
ForceCheck(c, timezoneOffset) ==
    IF c.call.forceRetrieve /\ ~c.call.refreshed
    THEN retrieveEventsAround(c, c.call.day, "force", timezoneOffset)
    ELSE ReturnResult(c, timezoneOffset)

\* variant: the refresh is anchored on the edge of the window, not on the day
BufferCheck_Edge(c, timezoneOffset) ==
    IF WholeDays(c.call.day, c.requestStartDate) < minBufferThreshold
    THEN retrieveEventsAround(c, c.requestStartDate, "start", timezoneOffset)
    ELSE IF WholeDays(c.requestEndDate, c.call.day) < minBufferThreshold
    THEN retrieveEventsAround(c, c.requestEndDate, "end", timezoneOffset)
    ELSE ForceCheck(c, timezoneOffset)

\* variant: a day exactly minBufferThreshold days from an edge refreshes too
BufferCheck_Inclusive(c, timezoneOffset) ==
    IF WholeDays(c.call.day, c.requestStartDate) <= minBufferThreshold
    THEN retrieveEventsAround(c, c.call.day, "start", timezoneOffset)
    ELSE IF WholeDays(c.requestEndDate, c.call.day) <= minBufferThreshold
    THEN retrieveEventsAround(c, c.call.day, "end", timezoneOffset)
    ELSE ForceCheck(c, timezoneOffset)

\* the "too close to buffer start" and "too close to buffer end" checks
BufferCheck(c, timezoneOffset) ==
    IF WholeDays(c.call.day, c.requestStartDate) < minBufferThreshold
    THEN retrieveEventsAround(c, c.call.day, "start", timezoneOffset)
    ELSE IF WholeDays(c.requestEndDate, c.call.day) < minBufferThreshold
    THEN retrieveEventsAround(c, c.call.day, "end", timezoneOffset)
    ELSE ForceCheck(c, timezoneOffset)

\* if len(gcal.eventsBuffer) == 0
EmptyCheck(c, timezoneOffset) ==
    IF Len(c.eventsBuffer) = 0
    THEN retrieveEventsAround(c, c.call.day, "empty", timezoneOffset)
    ELSE BufferCheck(c, timezoneOffset)

\* retrieveEventsAround returned nil to getDayEvents: refreshed = true, and the
\* call goes on after the place that called
Resume(c, timezoneOffset) ==
    LET c1 == [c EXCEPT !.call.refreshed = TRUE]
    IN IF c.call.site = "empty" THEN BufferCheck(c1, timezoneOffset)
       ELSE IF c.call.site \in {"start", "end"} THEN ForceCheck(c1, timezoneOffset)
       ELSE ReturnResult(c1, timezoneOffset)

\* variant: a 410 Gone answer clears the buffer but leaves the stored token
HandleResponse_KeepToken(c, response, timezoneOffset) ==
    LET n == Len(c.call.requests)
        isIncremental == c.call.requests[n].isIncremental
        c0 == [c EXCEPT !.call.requests[n].answer = response.kind,
                        !.call.requests[n].nextSyncToken = response.nextSyncToken,
                        !.call.requests[n].malformed = HasMalformed(response.items)]
    IN IF response.kind = "gone"
       THEN {retrieveEventsAround([c0 EXCEPT !.eventsBuffer = <<>>, !.syncedWindow = NoWindow],
                                  c.call.day, c.call.site, timezoneOffset)}
       ELSE IF response.kind = "error"
       THEN {ReturnError(c0, "http")}
       ELSE LET c1 == [c0 EXCEPT !.syncToken = response.nextSyncToken]
                eventsMap == createEventsFromResponse(isIncremental, c.eventsBuffer, response.items)
            IN IF eventsMap.err
               THEN {ReturnError(c1, "parse")}
               ELSE {Resume([c1 EXCEPT !.eventsBuffer = q,
                                       !.syncedWindow = IF isIncremental THEN @
                                                        ELSE <<c.requestStartDate, c.requestEndDate>>],
                            timezoneOffset) :
                        q \in SortedBuffers(eventsMap.events)}

\* variant: the items are applied to the buffer one by one, so the items that
\* precede a malformed one stay applied when the parse error is returned
HandleResponse_MergeInPlace(c, response, timezoneOffset) ==
    LET n == Len(c.call.requests)
        isIncremental == c.call.requests[n].isIncremental
        c0 == [c EXCEPT !.call.requests[n].answer = response.kind,
                        !.call.requests[n].nextSyncToken = response.nextSyncToken,
                        !.call.requests[n].malformed = HasMalformed(response.items)]
    IN IF response.kind = "gone"
       THEN {retrieveEventsAround([c0 EXCEPT !.syncToken = "", !.eventsBuffer = <<>>,
                                             !.syncedWindow = NoWindow],
                                  c.call.day, c.call.site, timezoneOffset)}
       ELSE IF response.kind = "error"
       THEN {ReturnError(c0, "http")}
       ELSE LET c1 == [c0 EXCEPT !.syncToken = response.nextSyncToken]
                eventsMap == createEventsFromResponse(isIncremental, c.eventsBuffer, response.items)
                good == CHOOSE k \in 0..Len(response.items) :
                            /\ ~HasMalformed(SubSeq(response.items, 1, k))
                            /\ k < Len(response.items)
                                => HasMalformed(SubSeq(response.items, 1, k + 1))
                applied == createEventsFromResponse(isIncremental, c.eventsBuffer,
                                                    SubSeq(response.items, 1, good))
            IN IF eventsMap.err
               THEN {ReturnError([c1 EXCEPT !.eventsBuffer = q], "parse") :
                        q \in SortedBuffers(applied.events)}
               ELSE {Resume([c1 EXCEPT !.eventsBuffer = q,
                                       !.syncedWindow = IF isIncremental THEN @
                                                        ELSE <<c.requestStartDate, c.requestEndDate>>],
                            timezoneOffset) :
                        q \in SortedBuffers(eventsMap.events)}

\* retrieveEventsAround from the return of listCall...Do() on: the set of
\* configurations the call can be in when it next waits or has returned
HandleResponse(c, response, timezoneOffset) ==
    LET n == Len(c.call.requests)
        isIncremental == c.call.requests[n].isIncremental
        c0 == [c EXCEPT !.call.requests[n].answer = response.kind,
                        !.call.requests[n].nextSyncToken = response.nextSyncToken,
                        !.call.requests[n].malformed = HasMalformed(response.items)]
    IN IF response.kind = "gone"
       THEN {retrieveEventsAround([c0 EXCEPT !.syncToken = "", !.eventsBuffer = <<>>,
                                             !.syncedWindow = NoWindow],
                                  c.call.day, c.call.site, timezoneOffset)}
       ELSE IF response.kind = "error"
       THEN {ReturnError(c0, "http")}
       ELSE LET c1 == [c0 EXCEPT !.syncToken = response.nextSyncToken]
                eventsMap == createEventsFromResponse(isIncremental, c.eventsBuffer, response.items)
            IN IF eventsMap.err
               THEN {ReturnError(c1, "parse")}
               ELSE {Resume([c1 EXCEPT !.eventsBuffer = q,
                                       !.syncedWindow = IF isIncremental THEN @
                                                        ELSE <<c.requestStartDate, c.requestEndDate>>],
                            timezoneOffset) :
                        q \in SortedBuffers(eventsMap.events)}

----------------------------------------------------------------------------
(* The state machine *)

NewCall(day, forceRetrieve, c) ==
    [op |-> "getDayEvents", day |-> day, forceRetrieve |-> forceRetrieve,
     refreshed |-> FALSE, site |-> "", err |-> "", result |-> <<>>, requests |-> <<>>,
     before |-> [eventsBuffer |-> c.eventsBuffer, requestStartDate |-> c.requestStartDate,
                 requestEndDate |-> c.requestEndDate, syncToken |-> c.syncToken]]

NoCall ==
    [NewCall(0, FALSE, [eventsBuffer |-> <<>>, requestStartDate |-> ZeroTime,
                        requestEndDate |-> ZeroTime, syncToken |-> ""])
        EXCEPT !.op = "none"]

Become(c) ==
    /\ eventsBuffer' = c.eventsBuffer
    /\ requestStartDate' = c.requestStartDate
    /\ requestEndDate' = c.requestEndDate
    /\ syncToken' = c.syncToken
    /\ pc' = c.pc
    /\ call' = c.call
    /\ syncedWindow' = c.syncedWindow
    /\ UNCHANGED <<tzOffset, app>>

\* the source is used by one caller at a time, outside the application
NoApp == [running |-> FALSE]

\* newGoogleCalendarEventSource: an empty buffer and a zero window; the sync token
\* is whatever an earlier run of the program left in the preferences
Init ==
    /\ eventsBuffer = <<>>
    /\ requestStartDate = ZeroTime
    /\ requestEndDate = ZeroTime
    /\ syncToken \in Tokens \cup {""}
    /\ tzOffset \in TzOffsets
    /\ syncedWindow = NoWindow
    /\ pc = "idle"
    /\ call = NoCall
    /\ app = NoApp

\* a caller calls getDayEvents(day, forceRetrieve)
getDayEvents(day, forceRetrieve) ==
    /\ pc = "idle"
    /\ Become(EmptyCheck([Cur EXCEPT !.call = NewCall(day, forceRetrieve, Cur)], tzOffset))

GoneCount == Cardinality({i \in 1..Len(call.requests) : call.requests[i].answer = "gone"})

\* the provider answers the list request the call is waiting for
ProviderAnswers(response) ==
    /\ pc = "waiting"
    /\ response.kind = "gone" => GoneCount < MaxGone
    /\ \E c \in HandleResponse(Cur, response, tzOffset) : Become(c)

Next ==
    \/ \E day \in Days, forceRetrieve \in BOOLEAN : getDayEvents(day, forceRetrieve)
    \/ \E response \in Answers : ProviderAnswers(response)

Spec == Init /\ [][Next]_vars

TypeOK ==
    /\ requestStartDate \in Int
    /\ requestEndDate \in Int
    /\ syncToken \in Tokens \cup {""}
    /\ pc \in {"idle", "waiting"}
    /\ call.op \in {"none", "getDayEvents"}

----------------------------------------------------------------------------
(* Vocabulary of the properties *)

\* a getDayEvents call has returned
Done == pc = "idle" /\ call.op = "getDayEvents"

NumRequests == Len(call.requests)

\* the list requests of the call that the provider answered with 410 Gone
GoneAnswers == {i \in 1..NumRequests : call.requests[i].answer = "gone"}

\* every list request of the call succeeded
AllAnswersOk == \A i \in 1..NumRequests : call.requests[i].answer = "ok"

\* request r is a full sync bounded by the window computed for the requested day
FullSyncFor(r, day) ==
    /\ ~r.isIncremental
    /\ r.syncToken = ""
    /\ r.timeBounded
    /\ r.timeMin = WindowStart(day, tzOffset)
    /\ r.timeMax = WindowEnd(day, tzOffset)

\* the tracked window is the ten days around the requested day, cut at local midnights
WindowCentredOn(day) ==
    /\ requestStartDate = WindowStart(day, tzOffset)
    /\ requestEndDate = WindowEnd(day, tzOffset)
    /\ requestEndDate - requestStartDate = 2 * requestHalfWindow * HoursPerDay
    /\ (requestStartDate + tzOffset) % HoursPerDay = 0
    /\ requestStartDate <= day /\ day <= requestEndDate
    /\ day - requestStartDate < (requestHalfWindow + 2) * HoursPerDay
    /\ requestEndDate - day < (requestHalfWindow + 2) * HoursPerDay

\* day lies more than the half window outside [start, end]
FarOutside(day, start, end) ==
    \/ day < start - requestHalfWindow * HoursPerDay
    \/ day > end + requestHalfWindow * HoursPerDay

\* day is fewer than minBufferThreshold whole days inside an edge of [start, end]
NearEdge(day, start, end) ==
    \/ WholeDays(day, start) < minBufferThreshold
    \/ WholeDays(end, day) < minBufferThreshold

\* the source and the stored token are as they were when the call began
SameAsBefore ==
    /\ eventsBuffer = call.before.eventsBuffer
    /\ requestStartDate = call.before.requestStartDate
    /\ requestEndDate = call.before.requestEndDate
    /\ syncToken = call.before.syncToken

\* this step is a call getDayEvents(call.day, false) that follows a returned call
\* getDayEvents(call.day, false) whose list requests all succeeded
RepeatedCall ==
    /\ Done /\ call.err = "" /\ ~call.forceRetrieve /\ AllAnswersOk
    /\ call'.op = "getDayEvents" /\ call'.day = call.day /\ ~call'.forceRetrieve

----------------------------------------------------------------------------
(* C1: idempotence of getDayEvents *)

\* C1 (as stated): in a sequence of calls getDayEvents(day, false) with the same
\* day whose provider requests all succeed, a call issues at most one list
\* request and every call after the first issues none, whatever the provider
\* answered (also a window without timed events).
C1_Idempotence ==
    [][RepeatedCall =>
          /\ NumRequests <= 1
          /\ pc' = "idle" /\ call'.requests = <<>>]_vars

\* C1 (amended): the same, for calls that follow a call which left the cache
\* non-empty: such a call issues no list request and changes nothing; a call
\* issues at most one list request when its requests succeed.
C1_IdempotenceNonEmptyCache ==
    [][RepeatedCall =>
          /\ NumRequests <= 1
          /\ eventsBuffer # <<>> =>
                /\ pc' = "idle" /\ call'.requests = <<>> /\ call'.err = ""
                /\ eventsBuffer' = eventsBuffer /\ syncToken' = syncToken
                /\ requestStartDate' = requestStartDate
                /\ requestEndDate' = requestEndDate]_vars

\* a repeated call for the day the window was centred on is served from the cache
C1_Witness ==
    /\ Done /\ ~call.forceRetrieve /\ call.requests = <<>> /\ call.err = ""
    /\ call.before.eventsBuffer # <<>>
    /\ requestStartDate = WindowStart(call.day, tzOffset)
    /\ call.result # <<>>

----------------------------------------------------------------------------
(* C2: the window after a failed retrieveEventsAround *)

\* C2: when retrieveEventsAround(day) returns an error, requestStartDate and
\* requestEndDate have the values they had before the call.
C2_WindowKeptOnError ==
    (Done /\ call.err # "") =>
        \A i \in 1..NumRequests :
            /\ requestStartDate = call.requests[i].before.requestStartDate
            /\ requestEndDate = call.requests[i].before.requestEndDate

----------------------------------------------------------------------------
(* C3: the cache after a failed getDayEvents *)

\* C3: for every getDayEvents call that returns an error, whatever the provider
\* answered inside the call, eventsBuffer after the call equals eventsBuffer
\* before the call.
C3_BufferKeptOnError ==
    (Done /\ call.err # "") => eventsBuffer = call.before.eventsBuffer

----------------------------------------------------------------------------
(* C4: provider errors other than 410 Gone *)

\* C4: if the provider answers the list request of a retrieveEventsAround
\* invocation with an error other than 410 Gone, the invocation returns that
\* error and eventsBuffer is what it was when the invocation began.
C4_ProviderErrorKeepsBuffer ==
    Done =>
        \A i \in 1..NumRequests :
            call.requests[i].answer = "error" =>
                /\ call.err = "http"
                /\ i = NumRequests
                /\ eventsBuffer = call.requests[i].before.eventsBuffer

\* a provider error was returned while the cache held events
C4_Witness ==
    /\ Done /\ call.err = "http" /\ NumRequests = 1
    /\ call.requests[1].answer = "error"
    /\ call.before.eventsBuffer # <<>> /\ eventsBuffer = call.before.eventsBuffer

----------------------------------------------------------------------------
(* C5: recovery from an invalid sync token *)

\* the call began with an incremental request that the provider answered 410 Gone
GoneOnIncremental ==
    /\ Done /\ NumRequests >= 1
    /\ call.requests[1].isIncremental /\ call.requests[1].answer = "gone"

\* C5 (as stated): when the provider answers an incremental request with 410
\* Gone, the call clears the stored token and the cache, issues exactly one
\* full-sync retry for the same day, and returns no error.
C5_GoneRecovery ==
    GoneOnIncremental =>
        /\ NumRequests = 2
        /\ FullSyncFor(call.requests[2], call.day)
        /\ call.requests[2].before.syncToken = ""
        /\ call.requests[2].before.eventsBuffer = <<>>
        /\ call.err = ""

\* C5 (amended): the token and the cache are cleared and a full-sync retry for
\* the same day is issued; when the provider answers the retry with a response
\* that parses, the call has issued exactly one retry, returns no error and the
\* stored token is the nextSyncToken of the retry's response; when it answers
\* the retry with an error other than 410 Gone, that error is returned and the
\* stored token and the cache stay cleared.
C5_GoneRecoveryWhenRetrySucceeds ==
    GoneOnIncremental =>
        /\ NumRequests >= 2
        /\ FullSyncFor(call.requests[2], call.day)
        /\ call.requests[2].before.syncToken = ""
        /\ call.requests[2].before.eventsBuffer = <<>>
        /\ (call.requests[2].answer = "ok" /\ ~call.requests[2].malformed) =>
                /\ NumRequests = 2
                /\ call.err = ""
                /\ syncToken = call.requests[2].nextSyncToken
        /\ call.requests[2].answer = "error" =>
                /\ NumRequests = 2
                /\ call.err = "http"
                /\ syncToken = "" /\ eventsBuffer = <<>>

\* an invalid token was recovered from: one retry, a new token, new events
C5_Witness ==
    /\ GoneOnIncremental /\ NumRequests = 2 /\ call.err = ""
    /\ call.before.syncToken # "" /\ syncToken # "" /\ syncToken # call.before.syncToken
    /\ eventsBuffer # <<>>

----------------------------------------------------------------------------
(* C6: recentering of the window *)

\* the call began with a non-empty cache, for a day more than the half window
\* outside the tracked window
FarCall ==
    /\ Done /\ call.before.eventsBuffer # <<>>
    /\ FarOutside(call.day, call.before.requestStartDate, call.before.requestEndDate)

----------------------------------------------------------------------------
(* C7: refresh near an edge of the window *)

\* C7: with a non-empty cache, getDayEvents(day, false) performs a provider
\* fetch whenever day is fewer than 2 whole days after requestStartDate or
\* fewer than 2 whole days before requestEndDate, and the fetch is anchored on
\* the requested day.
C7_BufferRefresh ==
    (/\ call.op = "getDayEvents" /\ ~call.forceRetrieve
     /\ call.before.eventsBuffer # <<>>
     /\ NearEdge(call.day, call.before.requestStartDate, call.before.requestEndDate)) =>
        /\ NumRequests >= 1
        /\ call.requests[1].timeBounded
        /\ call.requests[1].timeMin = WindowStart(call.day, tzOffset)
        /\ call.requests[1].timeMax = WindowEnd(call.day, tzOffset)
        /\ call.requests[1].timeMin <= call.day /\ call.day <= call.requests[1].timeMax
        /\ (Done /\ call.err = "") => WindowCentredOn(call.day)

\* a day inside the window, near its end, was refreshed without forceRetrieve
C7_Witness ==
    /\ Done /\ ~call.forceRetrieve /\ call.err = ""
    /\ call.before.eventsBuffer # <<>>
    /\ call.before.requestStartDate <= call.day /\ call.day <= call.before.requestEndDate
    /\ WholeDays(call.day, call.before.requestStartDate) >= minBufferThreshold
    /\ WholeDays(call.before.requestEndDate, call.day) < minBufferThreshold
    /\ NumRequests = 1

----------------------------------------------------------------------------
(* C8: no refresh inside the window *)

\* C8: when forceRetrieve is false, eventsBuffer is non-empty and day is at
\* least 2 whole days from both edges of the window, getDayEvents issues no
\* provider request and leaves eventsBuffer, requestStartDate, requestEndDate
\* and the stored sync token unchanged.
C8_NoRefreshFrame ==
    (/\ call.op = "getDayEvents" /\ ~call.forceRetrieve
     /\ call.before.eventsBuffer # <<>>
     /\ ~NearEdge(call.day, call.before.requestStartDate, call.before.requestEndDate)) =>
        /\ pc = "idle"
        /\ call.requests = <<>>
        /\ call.err = ""
        /\ SameAsBefore

\* a day other than the one the window is centred on was served from the cache
C8_Witness ==
    /\ Done /\ ~call.forceRetrieve /\ call.before.eventsBuffer # <<>>
    /\ ~NearEdge(call.day, call.before.requestStartDate, call.before.requestEndDate)
    /\ requestStartDate # WindowStart(call.day, tzOffset)
    /\ WholeDays(call.day, requestStartDate) = minBufferThreshold
    /\ syncToken # ""

----------------------------------------------------------------------------
(* C9: the empty cache *)

\* the call began with an empty cache and forceRetrieve false
EmptyCall == Done /\ call.before.eventsBuffer = <<>> /\ ~call.forceRetrieve

----------------------------------------------------------------------------
(* C10: the choice of the sync mode *)

\* the state request i of the call was computed from: the state the call began
\* in for the first request, the cleared state after a 410 Gone for a retry
StateBeforeRequest(i) ==
    IF i = 1 THEN call.before
    ELSE [eventsBuffer |-> <<>>, requestStartDate |-> WindowStart(call.day, tzOffset),
          requestEndDate |-> WindowEnd(call.day, tzOffset), syncToken |-> ""]

\* C10: a request of retrieveEventsAround is incremental (it carries the stored
\* sync token and no time bounds) if and only if the stored sync token is not
\* empty, eventsBuffer is not empty and the new window start equals the tracked
\* requestStartDate; in every other case it is a full sync bounded by the new
\* window.
C10_SyncMode ==
    call.op = "getDayEvents" =>
        \A i \in 1..NumRequests :
            LET r == call.requests[i]
                b == StateBeforeRequest(i)
            IN /\ r.isIncremental <=>
                    (/\ b.syncToken # ""
                     /\ b.eventsBuffer # <<>>
                     /\ WindowStart(call.day, tzOffset) = b.requestStartDate)
               /\ r.isIncremental => (r.syncToken = b.syncToken /\ ~r.timeBounded)
               /\ ~r.isIncremental => FullSyncFor(r, call.day)
               /\ (i > 1) => call.requests[i - 1].answer = "gone"

\* an incremental sync was made, and merged into the cache
C10_Witness ==
    /\ Done /\ call.err = "" /\ NumRequests = 1
    /\ call.requests[1].isIncremental /\ call.requests[1].syncToken = call.before.syncToken
    /\ call.requests[1].answer = "ok"
    /\ Len(eventsBuffer) > Len(call.before.eventsBuffer)

----------------------------------------------------------------------------
(* A second specification for the reconciliation of a response with the    *)
(* cache: the same source and the same two steps, with events on several   *)
(* days and hours, responses of up to two items, and few requested days.   *)

MergeDay == BaseDay + 6

\* 15:00 UTC and 03:00 UTC of the next day: with the offset -5 both starts are on
\* one local day, with the offset +2 they are on two
MergeStarts == {MergeDay * HoursPerDay + 15, (MergeDay + 1) * HoursPerDay + 3}

\* 22:00 UTC is on the next local day with the offset +2
MergeDays == {MergeDay * HoursPerDay + 22, (MergeDay + 16) * HoursPerDay + 9}

MergeItemSet ==
    {Item(id, "cancelled", NoDateTime, NoDateTime, "") : id \in Ids}
    \cup {Item(id, "confirmed", DateTime(s), DateTime(s + 1), TitleOf[id]) :
            id \in Ids, s \in MergeStarts}
    \cup {Item(id, "confirmed", NoDateTime, NoDateTime, TitleOf[id]) : id \in Ids}
    \cup {Item(id, "confirmed", BadDateTime, BadDateTime, TitleOf[id]) : id \in Ids}
    \cup {Item(id, "confirmed", DateTime(MergeDay * HoursPerDay + 15), BadDateTime, TitleOf[id]) :
            id \in Ids}

\* a list response names an event once: the ids of its items are distinct
DistinctIds(items) ==
    \A i, j \in 1..Len(items) : items[i].id = items[j].id => i = j

MergeOkAnswers ==
    {[kind |-> "ok", nextSyncToken |-> tok, items |-> its] :
        tok \in Tokens \cup {""},
        its \in {q \in SeqsUpTo(MergeItemSet, MaxItems + 1) : DistinctIds(q)}}

MergeAnswers == MergeOkAnswers \cup {ErrorAnswer, GoneAnswer}

\* the provider answers as in ProviderAnswers, and the items of the response are
\* kept with the request they answer
ProviderAnswersItems(response) ==
    /\ pc = "waiting"
    /\ response.kind = "gone" => GoneCount < MaxGone
    /\ \E c \in HandleResponse(Cur, response, tzOffset) :
        Become([c EXCEPT !.call.requests[Len(call.requests)].items = response.items])

NextMerge ==
    \/ \E day \in MergeDays, forceRetrieve \in BOOLEAN : getDayEvents(day, forceRetrieve)
    \/ \E response \in MergeAnswers : ProviderAnswersItems(response)

SpecMerge == Init /\ [][NextMerge]_vars

\* the ids of the events of a buffer or of a returned list
IdsOf(buf) == {buf[i].id : i \in 1..Len(buf)}

\* the call has returned without error and its only request was answered by a
\* response that was applied
SyncDone ==
    /\ pc = "idle" /\ call.op = "getDayEvents" /\ call.err = ""
    /\ Len(call.requests) = 1
    /\ call.requests[1].answer = "ok"

(* C11: after a successful incremental sync whose response cancels an id  *)
(* of the cache, the id is not in eventsBuffer and not in the list the    *)
(* call returns; no returned list holds an id that is not in              *)
(* eventsBuffer; and an id enters eventsBuffer only by a response that    *)
(* holds it as a non-cancelled item.                                      *)
C11_DeletionReconciliation ==
    [][
        /\ (SyncDone' /\ call'.requests[1].isIncremental) =>
            \A i \in 1..Len(call'.requests[1].items) :
                LET item == call'.requests[1].items[i]
                IN (item.status = "cancelled"
                        /\ item.id \in IdsOf(call'.requests[1].before.eventsBuffer))
                   => item.id \notin IdsOf(eventsBuffer') \cup IdsOf(call'.result)
        /\ IdsOf(call'.result) \subseteq IdsOf(eventsBuffer')
        /\ \A id \in IdsOf(eventsBuffer') \ IdsOf(eventsBuffer) :
            /\ call'.requests # <<>>
            /\ \E i \in 1..Len(call'.requests[Len(call'.requests)].items) :
                LET item == call'.requests[Len(call'.requests)].items[i]
                IN item.id = id /\ item.status # "cancelled"
    ]_vars

\* an incremental sync has just removed an event of the requested day from a
\* cache of two events, and the call has returned the other one only
C11_Witness ==
    /\ pc = "idle" /\ call.op = "getDayEvents" /\ call.err = ""
    /\ Len(call.requests) = 1
    /\ call.requests[1].isIncremental
    /\ call.requests[1].answer = "ok"
    /\ Len(call.requests[1].before.eventsBuffer) = 2
    /\ Len(eventsBuffer) = 1
    /\ IdsOf(eventsBuffer) \subseteq IdsOf(call.requests[1].before.eventsBuffer)
    /\ Len(DayFilter(call.requests[1].before.eventsBuffer, call.day, tzOffset)) = 2
    /\ Len(call.result) = 1

\* the events of a buffer, as a set
EventsOf(buf) == {buf[i] : i \in 1..Len(buf)}

\* a successful incremental sync whose response is one item, not cancelled, of an
\* id the cache does not hold
OneNewItem ==
    /\ SyncDone
    /\ call.requests[1].isIncremental
    /\ Len(call.requests[1].items) = 1
    /\ call.requests[1].items[1].status # "cancelled"
    /\ call.requests[1].items[1].id \notin IdsOf(call.requests[1].before.eventsBuffer)

(* C12 as stated: after a successful incremental sync whose response is   *)
(* one new item, the cache is one event larger and holds every event it   *)
(* held, unchanged.                                                       *)
C12_MergeCorrectness ==
    OneNewItem =>
        /\ Len(eventsBuffer) = Len(call.requests[1].before.eventsBuffer) + 1
        /\ EventsOf(call.requests[1].before.eventsBuffer) \subseteq EventsOf(eventsBuffer)

(* C12, amended: the same for a new item that has a start time; a new     *)
(* all-day item leaves the cache as it was.                               *)
C12_MergeCorrectnessTimedItem ==
    OneNewItem =>
        /\ EventsOf(call.requests[1].before.eventsBuffer) \subseteq EventsOf(eventsBuffer)
        /\ Len(eventsBuffer) = Len(call.requests[1].before.eventsBuffer)
                + (IF call.requests[1].items[1].start.present THEN 1 ELSE 0)
        /\ call.requests[1].items[1].start.present
            => call.requests[1].items[1].id \in IdsOf(eventsBuffer)

\* a new timed item has been merged into a cache of one event
C12_Witness ==
    /\ OneNewItem
    /\ call.requests[1].items[1].start.present
    /\ Len(call.requests[1].before.eventsBuffer) = 1
    /\ Len(eventsBuffer) = 2

\* ascending by start, events of one start ascending by title
AscendingByStartThenTitle(buf) ==
    \A i, j \in 1..Len(buf) :
        i < j => \/ buf[i].start < buf[j].start
                 \/ /\ buf[i].start = buf[j].start
                    /\ TitleRank(buf[i].title) <= TitleRank(buf[j].title)

(* C13: eventsBuffer is always ascending by (start, title), and so is     *)
(* every list getDayEvents returns.                                       *)
C13_SortOrder ==
    /\ AscendingByStartThenTitle(eventsBuffer)
    /\ AscendingByStartThenTitle(call.result)

\* a call has returned A and B of one start in this order, from a cache that
\* also holds them
C13_Witness ==
    /\ pc = "idle" /\ call.op = "getDayEvents" /\ call.err = ""
    /\ Len(call.result) = 2
    /\ call.result[1].start = call.result[2].start
    /\ call.result[1].title = "A" /\ call.result[2].title = "B"
    /\ Len(call.requests) = 1 /\ call.requests[1].answer = "ok"
    /\ Len(call.requests[1].items) = 2
    /\ call.requests[1].items[1].summary = "B"

\* the start or the end of an item of the response is not a timestamp
MalformedTimestamp(items) ==
    \E i \in 1..Len(items) :
        \/ items[i].start.present /\ ~items[i].start.wellFormed
        \/ items[i].end.present /\ ~items[i].end.wellFormed

\* the call has returned and the last list request it sent was answered by a response
LastResponseHandled ==
    /\ pc = "idle" /\ call.op = "getDayEvents"
    /\ call.requests # <<>>
    /\ call.requests[Len(call.requests)].answer = "ok"

(* C14: when an item of the response has a malformed start or end, the    *)
(* invocation of retrieveEventsAround that received it returns an error   *)
(* and eventsBuffer is what it was when the request was sent.             *)
C14_ParseErrorAtomic ==
    (LastResponseHandled /\ MalformedTimestamp(call.requests[Len(call.requests)].items))
    => /\ call.err = "parse"
       /\ call.result = <<>>
       /\ eventsBuffer = call.requests[Len(call.requests)].before.eventsBuffer

\* an incremental response cancels a cached event and then holds a malformed
\* item: the error is returned and the cancelled event is still cached
C14_Witness ==
    /\ LastResponseHandled
    /\ call.requests[Len(call.requests)].isIncremental
    /\ Len(call.requests[Len(call.requests)].items) = 2
    /\ call.requests[Len(call.requests)].items[1].status = "cancelled"
    /\ call.requests[Len(call.requests)].items[1].id \in IdsOf(eventsBuffer)
    /\ MalformedTimestamp(<<call.requests[Len(call.requests)].items[2]>>)
    /\ call.err = "parse"

----------------------------------------------------------------------------
(* C15: the cache a returned list was filtered from *)

\* C15: whenever getDayEvents returns a list with no error, eventsBuffer comes
\* from a successful sync for the window [requestStartDate, requestEndDate], and
\* this window contains the requested day.
C15_CacheOfTrackedWindow ==
    (Done /\ call.err = "") =>
        /\ syncedWindow = <<requestStartDate, requestEndDate>>
        /\ requestStartDate <= call.day /\ call.day <= requestEndDate

----------------------------------------------------------------------------
(* C16: the list getDayEvents returns *)

\* the start of the event is on the calendar day of the requested instant
OnRequestedDay(e) ==
    (e.start + tzOffset) \div HoursPerDay = (call.day + tzOffset) \div HoursPerDay

\* C16: a list returned with no error holds exactly the events of eventsBuffer
\* that start on the requested calendar day, each once, in the order of the buffer.
C16_FacadeFilter ==
    (Done /\ call.err = "") =>
        /\ \A i \in 1..Len(call.result) :
            call.result[i] \in EventsOf(eventsBuffer) /\ OnRequestedDay(call.result[i])
        /\ \A e \in EventsOf(eventsBuffer) :
            OnRequestedDay(e)
                => Cardinality({i \in 1..Len(call.result) : call.result[i] = e}) = 1
        /\ \A i, j \in 1..Len(call.result) :
            i < j => \E k, l \in 1..Len(eventsBuffer) :
                        k < l /\ eventsBuffer[k] = call.result[i] /\ eventsBuffer[l] = call.result[j]

\* of two cached events the call returned the one of the requested local day,
\* which is not on the UTC day of the requested instant
C16_Witness ==
    /\ Done /\ call.err = ""
    /\ Len(eventsBuffer) = 2
    /\ Len(call.result) = 1
    /\ call.result[1].start \div HoursPerDay # call.day \div HoursPerDay

----------------------------------------------------------------------------
(* C17: the sync token after a successful sync *)

\* C17: after a sync that succeeded, the stored token is the nextSyncToken of the
\* response when it has one, and the token stored before the sync when it has none.
C17_SyncTokenPersistence ==
    (Done /\ call.err = "" /\ call.requests # <<>>) =>
        LET last == call.requests[Len(call.requests)]
        IN syncToken = IF last.nextSyncToken # "" THEN last.nextSyncToken
                       ELSE last.before.syncToken

----------------------------------------------------------------------------
(* A third specification: the application around the source (daily.go).   *)
(* refresh runs on the goroutine that calls it: the goroutine of the user *)
(* interface ("ui": button taps and the functions handed to fyne.Do) or   *)
(* the goroutine cron starts for the midnight job ("cron"), which calls   *)
(* changeDay directly.  Nothing locks the source, so the steps of two     *)
(* refreshes interleave; the rebuild of the buffer is modelled statement  *)
(* by statement.  Time is counted in minutes to the start of the events.  *)

MaxMinutes == 2        \* the run begins this many minutes before the events start
MaxQueued == 1         \* functions handed to fyne.Do and not yet run

Threads == {"ui", "cron"}

AppToday == MergeDay * HoursPerDay + 9
AppStart == MergeDay * HoursPerDay + 15
AppTomorrow == AppToday + HoursPerDay
NotificationTime == 1         \* the fallback of the "notification-time" preference

\* the events of the application's day: two events that start at one time
AppIds == {1, 2}
AppItemSet ==
    {Item(id, "confirmed", DateTime(AppStart), DateTime(AppStart + 1), TitleOf[id]) : id \in AppIds}

\* the provider reports an error, or answers with the events of the day
AppAnswers ==
    {ErrorAnswer,
     [kind |-> "ok", nextSyncToken |-> "s1",
      items |-> [k \in 1..Cardinality(AppIds) |-> CHOOSE i \in AppItemSet : i.id = k]]}

\* what the last read of the buffer by a goroutine saw: "quiet" when no other
\* goroutine was rebuilding the buffer, else "whole" (the buffer of before that
\* rebuild or a sorted buffer of after it) or "torn" (anything else)
NoRead == "quiet"

\* a goroutine that is not inside refresh
IdleThread ==
    [pc |-> "idle", call |-> NoCall, todo |-> <<>>, pre |-> <<>>, posts |-> {}, read |-> NoRead]

\* the configuration goroutine t works on: the shared source and its own call
ConfOf(t) ==
    [eventsBuffer |-> eventsBuffer, requestStartDate |-> requestStartDate,
     requestEndDate |-> requestEndDate, syncToken |-> syncToken,
     syncedWindow |-> syncedWindow, pc |-> app.thread[t].pc, call |-> app.thread[t].call]

\* the shared source becomes the one of configuration c and the application a
AppBecomes(c, a) ==
    /\ eventsBuffer' = c.eventsBuffer
    /\ requestStartDate' = c.requestStartDate
    /\ requestEndDate' = c.requestEndDate
    /\ syncToken' = c.syncToken
    /\ syncedWindow' = c.syncedWindow
    /\ app' = a
    /\ UNCHANGED <<tzOffset, pc, call>>

\* goroutine t reads gcal.eventsBuffer: what it sees when another goroutine is
\* between make() and the end of the sort
ReadBy(t) ==
    IF \E u \in Threads \ {t} : app.thread[u].pc = "appending"
    THEN LET u == CHOOSE u \in Threads \ {t} : app.thread[u].pc = "appending"
         IN IF eventsBuffer = app.thread[u].pre \/ eventsBuffer \in app.thread[u].posts
            THEN "whole" ELSE "torn"
    ELSE NoRead

Min(x, y) == IF x < y THEN x ELSE y

\* the call of a goroutine without the record of the states it started from, which
\* the application does not look at
Forget(cl) ==
    [cl EXCEPT !.before = NoCall.before,
               !.requests = [i \in 1..Len(cl.requests) |->
                                [cl.requests[i] EXCEPT !.before = NoCall.before]]]

\* refresh from the return of getEvents on: the loop over the returned events.
\* They are copies of the cached events: notify sends the notification and clears
\* notifiable in the copy, which is dropped when refresh returns
AfterGetEvents(a, t, c) ==
    IF c.pc = "waiting"
    THEN [a EXCEPT !.thread[t].pc = "waiting", !.thread[t].call = Forget(c.call)]
    ELSE LET events == c.call.result
             due(e) == /\ a.untilStart > 0
                       /\ a.untilStart <= NotificationTime
                       /\ e.notifiable
             notified == {events[i].id : i \in {j \in 1..Len(events) : due(events[j])}}
         IN [a EXCEPT !.thread[t].pc = "idle",
                      !.thread[t].call = NoCall,
                      !.sent = [id \in Ids |-> IF id \in notified THEN Min(@[id] + 1, 2) ELSE @[id]]]

\* refresh(retrieveEvents) on goroutine t up to the first list request or to its end
BeginRefresh(a, t, forceRetrieve) ==
    LET c == EmptyCheck([ConfOf(t) EXCEPT !.pc = "idle",
                                          !.call = NewCall(a.displayDay, forceRetrieve, ConfOf(t))],
                        tzOffset)
        a1 == [a EXCEPT !.thread[t].read = ReadBy(t)]
    IN AppBecomes(c, AfterGetEvents(a1, t, c))

AppInit ==
    /\ eventsBuffer = <<>>
    /\ requestStartDate = ZeroTime
    /\ requestEndDate = ZeroTime
    /\ syncToken = ""
    /\ tzOffset = -5
    /\ syncedWindow = NoWindow
    /\ pc = "idle"
    /\ call = NoCall
    /\ app = [displayDay |-> AppToday, midnight |-> FALSE, queued |-> 0,
              untilStart |-> MaxMinutes, sent |-> [id \in Ids |-> 0],
              thread |-> [t \in Threads |-> IdleThread]]

\* the every-minute job: a minute has passed, and refresh(false) is handed to fyne.Do
MinuteTick ==
    /\ app.untilStart > 0
    /\ app.queued < MaxQueued
    /\ app' = [app EXCEPT !.untilStart = @ - 1, !.queued = @ + 1]
    /\ UNCHANGED <<eventsBuffer, requestStartDate, requestEndDate, syncToken, tzOffset,
                   syncedWindow, pc, call>>

\* the ui goroutine runs a function handed to fyne.Do: refresh(false); getEvents
\* turns the flag on when the update interval has elapsed
UiRunsQueued(intervalElapsed) ==
    /\ app.thread["ui"].pc = "idle"
    /\ app.queued > 0
    /\ BeginRefresh([app EXCEPT !.queued = @ - 1], "ui", intervalElapsed)

\* the refresh button: refresh(true)
TapRefresh ==
    /\ app.thread["ui"].pc = "idle"
    /\ BeginRefresh(app, "ui", TRUE)

\* the midnight job, once in the minutes of the run: changeDay(time.Now()) on the
\* goroutine cron started for it, which ends in refresh(false)
MidnightTick(intervalElapsed) ==
    /\ ~app.midnight
    /\ app.thread["cron"].pc = "idle"
    /\ BeginRefresh([app EXCEPT !.displayDay = AppTomorrow, !.midnight = TRUE],
                    "cron", intervalElapsed)

\* the provider answers the list request of goroutine t.  A 410, an error and a
\* response that does not parse are handled as in HandleResponse; otherwise the
\* token is stored, the events are computed and the buffer is allocated anew
AppProviderAnswers(t, response) ==
    /\ app.thread[t].pc = "waiting"
    /\ LET c == ConfOf(t)
           n == Len(c.call.requests)
           eventsMap == createEventsFromResponse(c.call.requests[n].isIncremental,
                                                 c.eventsBuffer, response.items)
       IN IF response.kind # "ok" \/ eventsMap.err
          THEN \E c1 \in HandleResponse(c, response, tzOffset) :
                    AppBecomes(c1, AfterGetEvents(app, t, c1))
          ELSE \E order \in Orders(eventsMap.events) :
                    AppBecomes(
                        [c EXCEPT !.syncToken = response.nextSyncToken, !.eventsBuffer = <<>>],
                        [app EXCEPT !.thread[t].pc = "appending",
                                    !.thread[t].call.requests[n].answer = "ok",
                                    !.thread[t].call.requests[n].nextSyncToken =
                                        response.nextSyncToken,
                                    !.thread[t].todo = order,
                                    !.thread[t].pre = c.eventsBuffer,
                                    !.thread[t].posts = SortedBuffers(eventsMap.events)])

\* one turn of the loop that appends the events to the new buffer
AppendEvent(t) ==
    /\ app.thread[t].pc = "appending"
    /\ app.thread[t].todo # <<>>
    /\ AppBecomes([ConfOf(t) EXCEPT !.eventsBuffer = Append(@, Head(app.thread[t].todo))],
                  [app EXCEPT !.thread[t].todo = Tail(@)])

\* slices.SortFunc on the buffer as it is, then the rest of getDayEvents and of refresh
SortBuffer(t) ==
    /\ app.thread[t].pc = "appending"
    /\ app.thread[t].todo = <<>>
    /\ \E q \in SortedBuffers(eventsBuffer) :
        LET n == Len(app.thread[t].call.requests)
            c == [ConfOf(t) EXCEPT
                    !.pc = "idle",
                    !.eventsBuffer = q,
                    !.syncedWindow = IF app.thread[t].call.requests[n].isIncremental THEN @
                                     ELSE <<requestStartDate, requestEndDate>>]
            c1 == Resume(c, tzOffset)
            a1 == [app EXCEPT !.thread[t].read = ReadBy(t),
                              !.thread[t].pre = <<>>, !.thread[t].posts = {}]
        IN AppBecomes(c1, AfterGetEvents(a1, t, c1))

NextApp ==
    \/ MinuteTick
    \/ \E intervalElapsed \in BOOLEAN : UiRunsQueued(intervalElapsed)
    \/ TapRefresh
    \/ \E intervalElapsed \in BOOLEAN : MidnightTick(intervalElapsed)
    \/ \E t \in Threads, response \in AppAnswers : AppProviderAnswers(t, response)
    \/ \E t \in Threads : AppendEvent(t)
    \/ \E t \in Threads : SortBuffer(t)

SpecApp == AppInit /\ [][NextApp]_vars

----------------------------------------------------------------------------
(* C18: refreshes on one event source *)

\* C18: at most one goroutine is inside refresh at any time.
C18_RefreshesNeverOverlap ==
    Cardinality({t \in Threads : app.thread[t].pc # "idle"}) <= 1

----------------------------------------------------------------------------
(* C19: what a reader of the buffer sees *)

\* C19: a goroutine that reads eventsBuffer while another one rebuilds it sees the
\* buffer as it was before that rebuild or as it is after it, sorted.
C19_CacheMutationAtomic ==
    \A t \in Threads : app.thread[t].read # "torn"

----------------------------------------------------------------------------
(* C20: the pre-start notification of an event *)

\* C20: no event id gets more than one pre-start notification.
C20_ReminderConsumedByFiring ==
    \A id \in Ids : app.sent[id] <= 1

----------------------------------------------------------------------------
(* A fourth specification: createEventsFromResponse on one timed item, for *)
(* the fields of the event that the synchronisation does not order or      *)
(* filter by: the response of the user, notifiable and the location.       *)

MaxEntryPoints == 2     \* entry points in the conference data of an item
MaxAttendees == 2       \* attendees of an item

\* the variables of the source, which the specifications of single functions leave alone
sourceVars ==
    <<eventsBuffer, requestStartDate, requestEndDate, syncToken, tzOffset, syncedWindow, pc, call>>

SourceUnused ==
    /\ eventsBuffer = <<>>
    /\ requestStartDate = ZeroTime
    /\ requestEndDate = ZeroTime
    /\ syncToken = ""
    /\ tzOffset = 0
    /\ syncedWindow = NoWindow
    /\ pc = "idle"
    /\ call = NoCall

EntryPoints ==
    {[entryPointType |-> "video", uri |-> "https://v1"],
     [entryPointType |-> "video", uri |-> "https://v2"],
     [entryPointType |-> "phone", uri |-> "tel:1"]}

\* item.ConferenceData: nil, or its entry points
ConferenceDatas ==
    {[present |-> FALSE, entryPoints |-> <<>>]}
    \cup {[present |-> TRUE, entryPoints |-> q] : q \in SeqsUpTo(EntryPoints, MaxEntryPoints)}

Attendees ==
    {[self |-> sf, responseStatus |-> r] : sf \in BOOLEAN, r \in {"accepted", "declined"}}

\* the start of the item against time.Now(): an hour before, the same instant, an hour after
ItemNow == AppStart
ItemStarts == {ItemNow - 1, ItemNow, ItemNow + 1}

TimedItems ==
    [id : {1}, summary : {"A"}, start : ItemStarts,
     attendees : SeqsUpTo(Attendees, MaxAttendees),
     transparency : {"", "transparent"},
     conferenceData : ConferenceDatas,
     hangoutLink : {"", "https://hangout"},
     location : {"", "room"}]

\* the loop over item.Attendees: the response of the first attendee flagged self
RECURSIVE SelfResponseOf(_)
SelfResponseOf(attendees) ==
    IF attendees = <<>> THEN ""
    ELSE IF Head(attendees).self THEN Head(attendees).responseStatus
    ELSE SelfResponseOf(Tail(attendees))

\* variant: the start of the item is not compared with the time of reconciliation
NotifiableOf_NoTimeTest(item, now) ==
    SelfResponseOf(item.attendees) # "declined" /\ item.transparency # "transparent"

\* the notifiable field of the event literal
NotifiableOf(item, now) ==
    /\ SelfResponseOf(item.attendees) # "declined"
    /\ item.transparency # "transparent"
    /\ item.start > now

\* the loop over ConferenceData.EntryPoints: the uri of the first video entry
\* point, or the zero value of the field
RECURSIVE FirstVideoUri(_)
FirstVideoUri(entryPoints) ==
    IF entryPoints = <<>> THEN ""
    ELSE IF Head(entryPoints).entryPointType = "video" THEN Head(entryPoints).uri
    ELSE FirstVideoUri(Tail(entryPoints))

\* the if / else if / else that sets newEvent.location
LocationOf(item) ==
    IF item.conferenceData.present THEN FirstVideoUri(item.conferenceData.entryPoints)
    ELSE IF item.hangoutLink # "" THEN item.hangoutLink
    ELSE item.location

\* the event createEventsFromResponse stores for a timed item
EventOfItem(item, now) ==
    [id |-> item.id, title |-> item.summary, start |-> item.start, end |-> item.start + 1,
     notifiable |-> NotifiableOf(item, now), response |-> SelfResponseOf(item.attendees),
     location |-> LocationOf(item)]

NoEventYet ==
    [id |-> 0, title |-> "", start |-> 0, end |-> 0, notifiable |-> FALSE, response |-> "",
     location |-> ""]

ItemInit ==
    /\ SourceUnused
    /\ \E item \in TimedItems :
        app = [item |-> item, now |-> ItemNow, stored |-> FALSE, event |-> NoEventYet]

\* the turn of the loop of createEventsFromResponse for the item
StoreItem ==
    /\ ~app.stored
    /\ app' = [app EXCEPT !.stored = TRUE, !.event = EventOfItem(app.item, app.now)]
    /\ UNCHANGED sourceVars

NextItem == StoreItem

SpecItem == ItemInit /\ [][NextItem]_vars

----------------------------------------------------------------------------
(* C21: the location of the event *)

\* the entry points of type video of the item, by position
VideoPositions(item) ==
    {i \in 1..Len(item.conferenceData.entryPoints) :
        item.conferenceData.entryPoints[i].entryPointType = "video"}

\* C21: the location of the stored event is the uri of the first video entry point
\* when the item has one, else the hangoutLink when it is not empty, else the
\* location text of the item.
C21_LocationDerivation ==
    app.stored =>
        LET videos == VideoPositions(app.item)
        IN app.event.location =
            IF videos # {}
            THEN app.item.conferenceData.entryPoints[
                    CHOOSE i \in videos : \A j \in videos : i <= j].uri
            ELSE IF app.item.hangoutLink # "" THEN app.item.hangoutLink
            ELSE app.item.location

----------------------------------------------------------------------------
(* C22: the notifiable flag of the event *)

\* the attendees of the item that are flagged self, by position
SelfPositions(item) == {i \in 1..Len(item.attendees) : item.attendees[i].self}

\* the self attendee has declined the item
SelfDeclined(item) ==
    /\ SelfPositions(item) # {}
    /\ item.attendees[CHOOSE i \in SelfPositions(item) :
                        \A j \in SelfPositions(item) : i <= j].responseStatus = "declined"

\* C22: the stored event is notifiable exactly when the self attendee has not
\* declined (no self attendee counts as not declined), the item is not transparent
\* and it starts strictly after the time of reconciliation.
C22_NotifiableDerivation ==
    app.stored =>
        (app.event.notifiable <=>
            /\ ~SelfDeclined(app.item)
            /\ app.item.transparency # "transparent"
            /\ app.item.start > app.now)

\* an item nobody is flagged self of, declined by another attendee, opaque and in
\* the future, is stored as notifiable
C22_Witness ==
    /\ app.stored
    /\ SelfPositions(app.item) = {}
    /\ Len(app.item.attendees) = 2
    /\ app.item.attendees[1].responseStatus = "declined"
    /\ app.item.start > app.now
    /\ app.event.notifiable
    /\ app.event.response = ""

----------------------------------------------------------------------------
(* A fifth specification: the events list of the window and the event      *)
(* source of the application (daily.go: refresh, getEvents, showSettings,  *)
(* and the Event widget).  What the source returns is left open: an error  *)
(* or any list of events in the order of their ids.  refresh runs on the   *)
(* "ui" goroutine or on the goroutine of the midnight job, as in SpecApp,  *)
(* and waits for the source between the clearing of the list and the       *)
(* building of the new widgets.                                            *)

UiTokens == {"t1", "t2"}

\* what eventSource.getEvents returns to getEvents: an error or the events of the day
UiResults ==
    {[err |-> TRUE, ids |-> <<>>]}
    \cup {[err |-> FALSE, ids |-> q] : q \in {<<>>, <<1>>, <<2>>, <<1, 2>>}}

\* ui.NewEvent followed by Open() when expandedState[id]
EventWidget(id, expandedState) == [id |-> id, open |-> id \in expandedState]

\* variant: the widgets are built closed whatever the expanded state was
BuildWidgets_Closed(ids, expandedState) ==
    [i \in 1..Len(ids) |-> EventWidget(ids[i], {})]

\* the loop of refresh that builds a widget for each event
BuildWidgets(ids, expandedState) ==
    [i \in 1..Len(ids) |-> EventWidget(ids[i], expandedState)]

\* the loop over eventsList.Objects that fills expandedState
ExpandedState(widgets) == {widgets[i].id : i \in {j \in 1..Len(widgets) : widgets[j].open}}

UiIdleThread == [pc |-> "idle", expandedState |-> {}, before |-> <<>>, source |-> "nil", token |-> ""]

\* the last refresh that got an answer from the source: the list before it, the
\* widgets it built, the token its source was built from and the stored token
NoRefresh == [valid |-> FALSE, before |-> <<>>, built |-> <<>>, source |-> "nil", token |-> ""]

UiInit ==
    /\ SourceUnused
    /\ \E tok \in UiTokens \cup {""} :
        app = [keyring |-> tok, eventSource |-> "nil", widgets |-> <<>>,
               thread |-> [t \in Threads |-> UiIdleThread], last |-> NoRefresh]

\* refresh on goroutine t up to the call of the source: the expanded state is
\* collected, the list is cleared, and getEvents creates the source from the
\* stored token when there is none (without a stored token refresh returns)
StartRefresh(t) ==
    /\ app.thread[t].pc = "idle"
    /\ IF app.eventSource = "nil" /\ app.keyring = ""
       THEN app' = [app EXCEPT !.widgets = <<>>]
       ELSE LET source == IF app.eventSource = "nil" THEN app.keyring ELSE app.eventSource
            IN app' = [app EXCEPT !.widgets = <<>>,
                                  !.eventSource = source,
                                  !.thread[t] = [pc |-> "fetching",
                                                 expandedState |-> ExpandedState(app.widgets),
                                                 before |-> app.widgets,
                                                 source |-> source,
                                                 token |-> app.keyring]]
    /\ UNCHANGED sourceVars

\* the source returns to getEvents and refresh goes on to its end: after an error
\* no event widget is added, else one widget for each event
FinishRefresh(t, result) ==
    /\ app.thread[t].pc = "fetching"
    /\ LET built == IF result.err THEN <<>>
                    ELSE BuildWidgets(result.ids, app.thread[t].expandedState)
       IN app' = [app EXCEPT !.widgets = @ \o built,
                             !.thread[t] = UiIdleThread,
                             !.last = [valid |-> TRUE, before |-> app.thread[t].before,
                                       built |-> built, source |-> app.thread[t].source,
                                       token |-> app.thread[t].token]]
    /\ UNCHANGED sourceVars

\* the user taps the title of the i-th widget: Close() when open, else Open()
TapTitle(i) ==
    /\ app.thread["ui"].pc = "idle"
    /\ app' = [app EXCEPT !.widgets[i].open = ~@]
    /\ UNCHANGED sourceVars

\* the Save button of the settings window, after a new authorisation
SaveSettings(gCalToken) ==
    /\ app.thread["ui"].pc = "idle"
    /\ app' = [app EXCEPT !.keyring = gCalToken]
    /\ UNCHANGED sourceVars

NextUi ==
    \/ \E t \in Threads : StartRefresh(t)
    \/ \E t \in Threads, result \in UiResults : FinishRefresh(t, result)
    \/ \E i \in 1..Len(app.widgets) : TapTitle(i)
    \/ \E gCalToken \in UiTokens : SaveSettings(gCalToken)

SpecUi == UiInit /\ [][NextUi]_vars

----------------------------------------------------------------------------
(* C23: the event source after a new token is saved *)

\* C23: a getEvents call uses an event source built from the token that is stored
\* when the call is made.
C23_SourceRebuiltOnNewToken ==
    app.last.valid => app.last.source = app.last.token

----------------------------------------------------------------------------
(* C25: the expansion state across a refresh *)

\* a widget of the id is in the list, and one of them is open
ShownIn(widgets, id) == \E j \in 1..Len(widgets) : widgets[j].id = id
OpenIn(widgets, id) == \E j \in 1..Len(widgets) : widgets[j].id = id /\ widgets[j].open

\* C25: a widget built by a refresh for an id that was shown immediately before
\* the refresh is open exactly when a widget of that id was open then.
C25_RefreshPreservesExpansion ==
    app.last.valid =>
        \A i \in 1..Len(app.last.built) :
            ShownIn(app.last.before, app.last.built[i].id)
                => (app.last.built[i].open <=> OpenIn(app.last.before, app.last.built[i].id))

\* a refresh of a list with event 1 closed and event 2 open has built them so
C25_Witness ==
    /\ app.last.valid
    /\ app.last.before = <<[id |-> 1, open |-> FALSE], [id |-> 2, open |-> TRUE]>>
    /\ app.last.built = <<[id |-> 1, open |-> FALSE], [id |-> 2, open |-> TRUE]>>
    /\ app.widgets = app.last.built

-----------------------------------------------------------------------------
\* createUserFriendlyDurationText (daily.go:371-384): the text of the time
\* remaining before an event.  Durations are whole seconds; the text is the
\* string fmt.Sprintf builds.

MaxSeconds == 7260

SecondsPerMinute == 60

SecondsPerHour == 3600

\* time.Duration.Truncate(time.Minute) of a non-negative duration
TruncateToMinute(d) == (d \div SecondsPerMinute) * SecondsPerMinute

\* int(d.Hours()) and int(d.Minutes()) of a non-negative duration
WholeHours(d) == d \div SecondsPerHour

WholeMinutes(d) == d \div SecondsPerMinute

RoundUpToMinute_Truncating(d) == TruncateToMinute(d)

RoundUpToMinute(d) ==
    IF d % SecondsPerMinute > 0
    THEN TruncateToMinute(d) + SecondsPerMinute
    ELSE d

createUserFriendlyDurationText(durationRemaining) ==
    LET d == RoundUpToMinute(durationRemaining)
    IN  IF WholeHours(d) > 0
        THEN ToString(WholeHours(d)) \o "h"
                 \o ToString(WholeMinutes(d) % 60) \o "m"
        ELSE ToString(WholeMinutes(d)) \o "m"

DurationInit ==
    /\ SourceUnused
    /\ app \in [durationRemaining : 0..MaxSeconds,
                formatted : {FALSE},
                text : {""}]

FormatDuration ==
    /\ ~app.formatted
    /\ app' = [app EXCEPT !.formatted = TRUE,
                          !.text = createUserFriendlyDurationText(
                                       app.durationRemaining)]
    /\ UNCHANGED sourceVars

NextDuration == FormatDuration

SpecDuration == DurationInit /\ [][NextDuration]_vars

\* m = ceil(d / 1 minute)
CeilMinutes(d) == (d + SecondsPerMinute - 1) \div SecondsPerMinute

\* C24: for every duration d of a whole number of seconds, d >= 0, the text
\* shows m = ceil(d / 1 minute) minutes, written "<m div 60>h<m mod 60>m"
\* when m >= 60 and "<m>m" otherwise.
C24_DurationTextRoundsUp ==
    app.formatted =>
        LET m == CeilMinutes(app.durationRemaining)
        IN  app.text = IF m >= 60
                       THEN ToString(m \div 60) \o "h"
                                \o ToString(m % 60) \o "m"
                       ELSE ToString(m) \o "m"

\* 1h59m01s is shown as "2h0m"
C24_Witness ==
    /\ app.formatted
    /\ app.durationRemaining = 7141
    /\ app.text = "2h0m"

-----------------------------------------------------------------------------
\* Claims about the source that are stated over Spec and SpecMerge.

\* C26: one call to retrieveEventsAround issues at most two provider list
\* requests whatever the provider answers: the original request and at most
\* one full-sync retry after a 410 Gone answer; a Gone answer to the retry is
\* returned as an error and is not retried again.
C26_BoundedRetry == NumRequests <= 2

\* the request retrieveEventsAround has sent and the provider has not answered
SyncTokenRequestSent ==
    /\ pc = "waiting"
    /\ NumRequests >= 1
    /\ call.requests[NumRequests].isIncremental

\* C27: whenever retrieveEventsAround sends a sync-token request, the
\* successful sync that produced the current eventsBuffer was made for the
\* window now being requested, [requestStartDate, requestEndDate].
C27_IncrementalAnchoredToOwnWindow ==
    SyncTokenRequestSent => syncedWindow = <<requestStartDate, requestEndDate>>

-----------------------------------------------------------------------------
\* The googleCalendar type of gcal.go: the same cache behind getEvents, which
\* returns (events, refreshed, err).  Its near-edge refreshes are anchored on
\* the edges of the tracked window, its incremental test does not look at the
\* window, it stores the token of a response only when the response has one,
\* and it sorts the buffer by start alone.

\* the comparison function of gcal.go handed to slices.SortFunc
GcalCompareEvents(a, b) ==
    IF a.start < b.start THEN -1
    ELSE IF a.start > b.start THEN 1
    ELSE 0

GcalSortedBuffers(m) ==
    {q \in Orders(m) :
        \A i \in 1..(Len(q) - 1) : GcalCompareEvents(q[i], q[i + 1]) <= 0}

\* googleCalendar.retrieveEventsAround(day) up to listCall...Do()
GcalRetrieveEventsAround(c, day, site, timezoneOffset) ==
    LET newRequestStartDate == WindowStart(day, timezoneOffset)
        newRequestEndDate == WindowEnd(day, timezoneOffset)
        tok == c.syncToken
        isIncremental == tok # "" /\ Len(c.eventsBuffer) > 0
    IN [c EXCEPT !.requestStartDate = newRequestStartDate,
                 !.requestEndDate = newRequestEndDate,
                 !.pc = "waiting",
                 !.call.site = site,
                 !.call.requests = Append(@, Request(isIncremental, tok, newRequestStartDate,
                                                     newRequestEndDate, c))]

\* if forceRetrieve && !refreshed
GcalForceCheck(c, timezoneOffset) ==
    IF c.call.forceRetrieve /\ ~c.call.refreshed
    THEN GcalRetrieveEventsAround(c, c.call.day, "force", timezoneOffset)
    ELSE ReturnResult(c, timezoneOffset)

\* the "too close to buffer start" and "too close to buffer end" checks
GcalBufferCheck(c, timezoneOffset) ==
    IF WholeDays(c.call.day, c.requestStartDate) < minBufferThreshold
    THEN GcalRetrieveEventsAround(c, c.requestStartDate, "start", timezoneOffset)
    ELSE IF WholeDays(c.requestEndDate, c.call.day) < minBufferThreshold
    THEN GcalRetrieveEventsAround(c, c.requestEndDate, "end", timezoneOffset)
    ELSE GcalForceCheck(c, timezoneOffset)

\* if len(gcal.eventsBuffer) == 0
GcalEmptyCheck(c, timezoneOffset) ==
    IF Len(c.eventsBuffer) = 0
    THEN GcalRetrieveEventsAround(c, c.call.day, "empty", timezoneOffset)
    ELSE GcalBufferCheck(c, timezoneOffset)

\* retrieveEventsAround returned nil to getEvents
GcalResume(c, timezoneOffset) ==
    LET c1 == [c EXCEPT !.call.refreshed = TRUE]
    IN IF c.call.site = "empty" THEN GcalBufferCheck(c1, timezoneOffset)
       ELSE IF c.call.site \in {"start", "end"} THEN GcalForceCheck(c1, timezoneOffset)
       ELSE ReturnResult(c1, timezoneOffset)

\* the parameter day of the retrieveEventsAround call that is waiting, as far
\* as the window depends on it: the midnight in the middle of the window the
\* call computed (the retry after 410 Gone is made for the same parameter)
GcalAnchor(c, timezoneOffset) ==
    AddDate(c.requestStartDate + timezoneOffset, requestHalfWindow)

\* googleCalendar.retrieveEventsAround from the return of listCall...Do() on
GcalHandleResponse(c, response, timezoneOffset) ==
    LET n == Len(c.call.requests)
        isIncremental == c.call.requests[n].isIncremental
        c0 == [c EXCEPT !.call.requests[n].answer = response.kind,
                        !.call.requests[n].nextSyncToken = response.nextSyncToken,
                        !.call.requests[n].malformed = HasMalformed(response.items)]
    IN IF response.kind = "gone"
       THEN {GcalRetrieveEventsAround([c0 EXCEPT !.syncToken = "", !.eventsBuffer = <<>>],
                                      GcalAnchor(c, timezoneOffset),
                                      c.call.site, timezoneOffset)}
       ELSE IF response.kind = "error"
       THEN {ReturnError(c0, "http")}
       ELSE LET c1 == IF response.nextSyncToken # ""
                      THEN [c0 EXCEPT !.syncToken = response.nextSyncToken]
                      ELSE c0
                finalEvents == createEventsFromResponse(isIncremental, c.eventsBuffer,
                                                        response.items)
            IN IF finalEvents.err
               THEN {ReturnError(c1, "parse")}
               ELSE {GcalResume([c1 EXCEPT !.eventsBuffer = q], timezoneOffset) :
                        q \in GcalSortedBuffers(finalEvents.events)}

\* a caller calls getEvents(day, forceRetrieve)
getEvents(day, forceRetrieve) ==
    /\ pc = "idle"
    /\ Become(GcalEmptyCheck([Cur EXCEPT !.call = [NewCall(day, forceRetrieve, Cur)
                                                      EXCEPT !.op = "getEvents"]],
                             tzOffset))

\* the provider answers the list request getEvents is waiting for
GcalProviderAnswers(response) ==
    /\ pc = "waiting"
    /\ response.kind = "gone" => GoneCount < MaxGone
    /\ \E c \in GcalHandleResponse(Cur, response, tzOffset) : Become(c)

NextGcal ==
    \/ \E day \in Days, forceRetrieve \in BOOLEAN : getEvents(day, forceRetrieve)
    \/ \E response \in Answers : GcalProviderAnswers(response)

SpecGcal == Init /\ [][NextGcal]_vars

\* a getEvents call has returned
GcalDone == pc = "idle" /\ call.op = "getEvents"

\* C28: whenever getEvents(day, force) of gcal.go returns without error, the
\* requested day lies inside the tracked window
\* [requestStartDate, requestEndDate].
C28_GcalWindowContainsDay ==
    (GcalDone /\ call.err = "") =>
        (requestStartDate <= call.day /\ call.day <= requestEndDate)

-----------------------------------------------------------------------------
\* the last response of the call was received and its reconciliation failed
ReconciliationFailed ==
    /\ Done
    /\ call.err = "parse"
    /\ NumRequests >= 1
    /\ call.requests[NumRequests].answer = "ok"

\* C29: a response whose reconciliation fails (parse error) does not advance
\* the persisted sync token: after the call the token is the one that was
\* stored when the request was made, the token of the response last merged
\* into eventsBuffer.
C29_TokenAdvancesWithCache ==
    ReconciliationFailed =>
        /\ eventsBuffer = call.requests[NumRequests].before.eventsBuffer
        /\ syncToken = call.requests[NumRequests].before.syncToken

-----------------------------------------------------------------------------
\* the events of a buffer that have the id
EventsWithId(buf, id) == {e \in EventsOf(buf) : e.id = id}

\* C30: after a successful incremental sync, every cached event whose id
\* appears among the response items reflects that item: it is removed if the
\* item is cancelled, it is replaced by the item's data if the item has a
\* start time, and it does not stay in the cache with its pre-sync data if
\* the item no longer has a start time (it became an all-day event).
C30_NoStaleEntry ==
    (SyncDone /\ call.requests[1].isIncremental) =>
        \A i \in 1..Len(call.requests[1].items) :
            LET item == call.requests[1].items[i]
                cached == EventsWithId(eventsBuffer, item.id)
            IN  item.id \in IdsOf(call.requests[1].before.eventsBuffer) =>
                    IF item.status = "cancelled" \/ ~item.start.present
                    THEN cached = {}
                    ELSE \A e \in cached :
                            /\ e.title = item.summary
                            /\ e.start = item.start.instant
                            /\ e.end = item.end.instant

====
